---------------------------- MODULE Spec2Model ----------------------------
(***************************************************************************)
(* A model of src/pyrogram_helpers.py: the command tokenizer, the message  *)
(* link builder and parser, the duration and size formatters and the       *)
(* display-name accessor.                                                  *)
(*                                                                         *)
(* Every function of the module is pure, so the state is one call frame:   *)
(* the arguments of the call (arg), the link that is being built or parsed *)
(* (link), the value returned (ret) and the position of the caller (pc).   *)
(*                                                                         *)
(* A Python str is a sequence of one-character strings.  A Python value    *)
(* whose type varies (None, an int, a str) is a record [t, i, s] tagged by *)
(* its type.                                                               *)
(***************************************************************************)
EXTENDS Integers, Sequences, FiniteSets, TLC

VARIABLES pc, arg, link, ret

vars == <<pc, arg, link, ret>>

-----------------------------------------------------------------------------
(* Python values *)

None == [t |-> "none", i |-> 0, s |-> <<>>]

PyInt(n) == [t |-> "int", i |-> n, s |-> <<>>]

PyStr(str) == [t |-> "str", i |-> 0, s |-> str]

\* Truthiness of None / int / str, as `if x:` and `x or y` test it.
Truthy(v) ==
    CASE v.t = "none" -> FALSE
      [] v.t = "int"  -> v.i # 0
      [] v.t = "str"  -> v.s # <<>>

-----------------------------------------------------------------------------
(* str methods *)

\* The characters str.strip() and str.split() treat as whitespace.  "FS" stands
\* for the separators \x1c..\x1f, which str.isspace() accepts and int() does not.
StrSpace == {" ", "\t", "\n", "\r", "\f", "FS"}

\* The characters int() skips around the number of an ASCII string.
IntSpace == {" ", "\t", "\n", "\r", "\f"}

Digits == <<"0", "1", "2", "3", "4", "5", "6", "7", "8", "9">>

DigitChars == {Digits[k] : k \in 1..10}

DigitVal(ch) == (CHOOSE k \in 1..10 : Digits[k] = ch) - 1

\* s[k:]
Drop(s, k) == IF k >= Len(s) THEN <<>> ELSE SubSeq(s, k + 1, Len(s))

\* s.startswith(p)
StartsWith(s, p) == Len(s) >= Len(p) /\ SubSeq(s, 1, Len(p)) = p

\* p in s
Contains(s, p) ==
    \E k \in 0..(Len(s) - Len(p)) : SubSeq(s, k + 1, k + Len(p)) = p

RECURSIVE LStripSet(_, _)
LStripSet(s, chars) ==
    IF s # <<>> /\ Head(s) \in chars THEN LStripSet(Tail(s), chars) ELSE s

RECURSIVE RStripSet(_, _)
RStripSet(s, chars) ==
    IF s # <<>> /\ s[Len(s)] \in chars
    THEN RStripSet(SubSeq(s, 1, Len(s) - 1), chars)
    ELSE s

\* s.strip()
Strip(s) == RStripSet(LStripSet(s, StrSpace), StrSpace)

\* s.rstrip(ch)
RStrip(s, ch) == RStripSet(s, {ch})

\* s.split(ch): the pieces between the occurrences of ch, empty ones kept;
\* never an empty list.
RECURSIVE SplitAcc(_, _, _)
SplitAcc(s, ch, cur) ==
    IF s = <<>> THEN <<cur>>
    ELSE IF Head(s) = ch THEN <<cur>> \o SplitAcc(Tail(s), ch, <<>>)
    ELSE SplitAcc(Tail(s), ch, Append(cur, Head(s)))

Split(s, ch) == SplitAcc(s, ch, <<>>)

\* s.split(): the maximal runs of non-whitespace characters.
RECURSIVE SplitWsAcc(_, _)
SplitWsAcc(s, cur) ==
    IF s = <<>> THEN (IF cur = <<>> THEN <<>> ELSE <<cur>>)
    ELSE IF Head(s) \in StrSpace
         THEN (IF cur = <<>> THEN <<>> ELSE <<cur>>) \o SplitWsAcc(Tail(s), <<>>)
         ELSE SplitWsAcc(Tail(s), Append(cur, Head(s)))

SplitWs(s) == SplitWsAcc(s, <<>>)

\* sep.join(parts)
RECURSIVE Join(_, _)
Join(parts, sep) ==
    IF parts = <<>> THEN <<>>
    ELSE IF Len(parts) = 1 THEN parts[1]
    ELSE parts[1] \o sep \o Join(Tail(parts), sep)

\* str(n) of a non-negative int
RECURSIVE StrNat(_)
StrNat(n) ==
    IF n < 10 THEN <<Digits[n + 1]>>
    ELSE Append(StrNat(n \div 10), Digits[(n % 10) + 1])

\* str(n), f"{n}"
Str(n) == IF n < 0 THEN <<"-">> \o StrNat(-n) ELSE StrNat(n)

-----------------------------------------------------------------------------
(* int(str) *)

\* The digits part of an int literal: digits, with single underscores allowed
\* between two digits.
RECURSIVE IsDigitRun(_, _)
IsDigitRun(s, afterDigit) ==
    IF s = <<>> THEN afterDigit
    ELSE IF Head(s) \in DigitChars THEN IsDigitRun(Tail(s), TRUE)
    ELSE IF Head(s) = "_" THEN afterDigit /\ Tail(s) # <<>>
                               /\ Head(Tail(s)) \in DigitChars
                               /\ IsDigitRun(Tail(s), FALSE)
    ELSE FALSE

RECURSIVE DigitRunVal(_, _)
DigitRunVal(s, acc) ==
    IF s = <<>> THEN acc
    ELSE IF Head(s) = "_" THEN DigitRunVal(Tail(s), acc)
    ELSE DigitRunVal(Tail(s), 10 * acc + DigitVal(Head(s)))

\* int(s): surrounding whitespace skipped, an optional sign, then the digits.
\* Anything else raises ValueError.
IntOf(s) ==
    LET body   == RStripSet(LStripSet(s, IntSpace), IntSpace)
        signed == body # <<>> /\ Head(body) \in {"+", "-"}
        digs   == IF signed THEN Tail(body) ELSE body
    IN  IF IsDigitRun(digs, FALSE)
        THEN [exc |-> "none",
              val |-> IF signed /\ Head(body) = "-"
                      THEN -DigitRunVal(digs, 0) ELSE DigitRunVal(digs, 0)]
        ELSE [exc |-> "ValueError", val |-> 0]

-----------------------------------------------------------------------------
(* parse_command, get_command_args *)

\* A tokenizer that forgets the test for the '/' prefix.
parse_command_NoPrefixTest(text) ==
    IF text = <<>> THEN <<>> ELSE SplitWs(text)

parse_command(text) ==
    IF text = <<>> \/ ~StartsWith(text, <<"/">>) THEN <<>> ELSE SplitWs(text)

get_command_args(text) ==
    LET parts == parse_command(text)
    IN  IF Len(parts) > 1 THEN Tail(parts) ELSE <<>>


\* The inputs of the command tokenizer: every text of at most MaxTextLen
\* characters of CmdChars.
MaxTextLen == 5

CmdChars == {"/", "a", "b", " "}

Texts == UNION {[1..k -> CmdChars] : k \in 0..MaxTextLen}

InitCmd ==
    /\ pc = "call"
    /\ arg \in [text : Texts]
    /\ link = <<>>
    /\ ret = <<>>

ParseCommand ==
    /\ pc = "call"
    /\ ret' = parse_command(arg.text)
    /\ pc' = "parse_command"
    /\ UNCHANGED <<arg, link>>

GetCommandArgs ==
    /\ pc = "call"
    /\ ret' = get_command_args(arg.text)
    /\ pc' = "get_command_args"
    /\ UNCHANGED <<arg, link>>

NextCmd == ParseCommand \/ GetCommandArgs

SpecCmd == InitCmd /\ [][NextCmd]_vars

-----------------------------------------------------------------------------
(* get_message_link, parse_message_link *)

HttpsTMe == <<"h", "t", "t", "p", "s", ":", "/", "/", "t", ".", "m", "e", "/">>

Minus100 == <<"-", "1", "0", "0">>

get_message_link(chat_id, message_id, username) ==
    IF Truthy(username)
    THEN HttpsTMe \o username.s \o <<"/">> \o Str(message_id)
    ELSE LET chat_id_str == Str(chat_id)
             stripped    == IF StartsWith(chat_id_str, Minus100)
                            THEN Drop(chat_id_str, 4) ELSE chat_id_str
         IN  HttpsTMe \o <<"c", "/">> \o stripped \o <<"/">> \o Str(message_id)

\* The ways a block of statements ends: it returns a value, it raises, or it
\* runs to its end (Pass).
NoneTriple == <<None, None, None>>

Return(v) == [kind |-> "return", exc |-> "none", val |-> v]

Raise(e) == [kind |-> "raise", exc |-> e, val |-> NoneTriple]

Pass == [kind |-> "pass", exc |-> "none", val |-> NoneTriple]

\* parts[-k]
Neg(parts, k) == parts[Len(parts) + 1 - k]

\* A channel id returned without the -100 prefix.
Prefixed_Missing(channel_id) == IntOf(Str(channel_id))

\* int(f"-100{channel_id}")
Prefixed(channel_id) == IntOf(Minus100 \o Str(channel_id))

\* lines 130-133
PrivateWithThread(parts) ==
    LET channel_id == IntOf(Neg(parts, 3))
        thread_id  == IntOf(Neg(parts, 2))
        message_id == IntOf(Neg(parts, 1))
        chat       == Prefixed(channel_id.val)
    IN  IF channel_id.exc # "none" THEN Raise(channel_id.exc)
        ELSE IF thread_id.exc # "none" THEN Raise(thread_id.exc)
        ELSE IF message_id.exc # "none" THEN Raise(message_id.exc)
        ELSE IF chat.exc # "none" THEN Raise(chat.exc)
        ELSE Return(<<PyInt(chat.val), PyInt(thread_id.val), PyInt(message_id.val)>>)

\* lines 135-137
PrivateNoThread(parts) ==
    LET channel_id == IntOf(Neg(parts, 2))
        message_id == IntOf(Neg(parts, 1))
        chat       == Prefixed(channel_id.val)
    IN  IF channel_id.exc # "none" THEN Raise(channel_id.exc)
        ELSE IF message_id.exc # "none" THEN Raise(message_id.exc)
        ELSE IF chat.exc # "none" THEN Raise(chat.exc)
        ELSE Return(<<PyInt(chat.val), None, PyInt(message_id.val)>>)

\* lines 129-137
PrivateForm(parts) ==
    IF Len(parts) >= 7 THEN PrivateWithThread(parts)
    ELSE IF Len(parts) >= 6 THEN PrivateNoThread(parts)
    ELSE Pass

\* lines 141-144
PublicWithThread(parts) ==
    LET username   == Neg(parts, 3)
        thread_id  == IntOf(Neg(parts, 2))
        message_id == IntOf(Neg(parts, 1))
    IN  IF thread_id.exc # "none" THEN Raise(thread_id.exc)
        ELSE IF message_id.exc # "none" THEN Raise(message_id.exc)
        ELSE Return(<<PyStr(username), PyInt(thread_id.val), PyInt(message_id.val)>>)

\* lines 149-151
PublicNoThread(parts) ==
    LET username   == Neg(parts, 2)
        message_id == IntOf(Neg(parts, 1))
    IN  IF message_id.exc # "none" THEN Raise(message_id.exc)
        ELSE Return(<<PyStr(username), None, PyInt(message_id.val)>>)

\* An inner try entered from 5 segments on instead of 6.
PublicThreadAttempt_FromFive(parts) ==
    LET inner == IF Len(parts) >= 5 THEN PublicWithThread(parts) ELSE Pass
    IN  IF inner.kind = "raise" /\ inner.exc = "ValueError" THEN Pass ELSE inner

\* An inner try without its `except ValueError: pass`.
PublicThreadAttempt_NoExcept(parts) ==
    IF Len(parts) >= 6 THEN PublicWithThread(parts) ELSE Pass

\* The inner try of lines 139-146: `except ValueError: pass`.
PublicThreadAttempt(parts) ==
    LET inner == IF Len(parts) >= 6 THEN PublicWithThread(parts) ELSE Pass
    IN  IF inner.kind = "raise" /\ inner.exc = "ValueError" THEN Pass ELSE inner

\* lines 139-151
PublicForm(parts) ==
    LET attempt == PublicThreadAttempt(parts)
    IN  IF attempt.kind # "pass" THEN attempt
        ELSE IF Len(parts) >= 4 THEN PublicNoThread(parts)
        ELSE Pass

\* An outer try that catches IndexError alone.
Caught_IndexErrorOnly == {"IndexError"}

\* The exceptions the outer try catches (line 153).
Caught == {"ValueError", "IndexError"}

\* lines 120-123: the link the branches test for '/c/'.
Normalized(link0) ==
    LET stripped == Strip(link0)
    IN  IF Contains(stripped, <<"?">>) THEN Split(stripped, "?")[1] ELSE stripped

\* A split that keeps the trailing slashes.
Parts_NoRStrip(link0) == Split(Normalized(link0), "/")

\* line 125
Parts(link0) == Split(RStrip(Normalized(link0), "/"), "/")

HasCMarker(link0) == Contains(Normalized(link0), <<"/", "c", "/">>)

\* The outcome of a call: Return(triple), or Raise(e) for an exception that
\* leaves the function.
parse_message_link(link0) ==
    LET parts == Parts(link0)
        body  == IF HasCMarker(link0) THEN PrivateForm(parts) ELSE PublicForm(parts)
    IN  IF body.kind = "return" THEN body
        ELSE IF body.kind = "raise" /\ body.exc \notin Caught THEN body
        ELSE Return(NoneTriple)


\* A caller that builds a link and parses it back.
GetMessageLink ==
    /\ pc = "build"
    /\ link' = get_message_link(arg.chat_id, arg.message_id, arg.username)
    /\ pc' = "parse"
    /\ UNCHANGED <<arg, ret>>

\* A caller that parses the link it holds.
ParseMessageLink ==
    /\ pc = "parse"
    /\ ret' = parse_message_link(link)
    /\ pc' = "done"
    /\ UNCHANGED <<arg, link>>

(* The inputs of the round trip *)

MaxChannelDigits == 2

MaxMessageId == 11

MaxUserLen == 2

RECURSIVE Pow10(_)
Pow10(d) == IF d = 0 THEN 1 ELSE 10 * Pow10(d - 1)

\* The ints whose decimal form is "-100" followed by at most MaxChannelDigits
\* digits.
PrefixedIds ==
    UNION {{-(100 * Pow10(d) + c) : c \in 0..(Pow10(d) - 1)} : d \in 0..MaxChannelDigits}

OtherIds == {0, 7, -7, -10, -99}

UserChars == {"c", "a", "1", "_"}

Usernames == UNION {[1..k -> UserChars] : k \in 1..MaxUserLen}

\* username=None, username="": the private form
PrivateArgs ==
    [chat_id : PrefixedIds \cup OtherIds, message_id : 1..MaxMessageId,
     username : {None, PyStr(<<>>)}]

PublicArgs ==
    [chat_id : {-100, -1005, 7}, message_id : 1..MaxMessageId,
     username : {PyStr(u) : u \in Usernames}]

InitLink ==
    /\ pc = "build"
    /\ arg \in PrivateArgs \cup PublicArgs
    /\ link = <<>>
    /\ ret = Pass

NextLink == GetMessageLink \/ ParseMessageLink

SpecLink == InitLink /\ [][NextLink]_vars

(* The inputs of the parser alone: a link is                                *)
(*   lead, segments joined by '/', trailing whitespace, query string        *)

MaxSegs == 4

SegSet == {<<>>, <<"c">>, <<"x">>, <<"1", "2">>, <<"-", "1">>}

Heads == {<<>>, <<<<"h", "t", "t", "p", "s", ":">>, <<>>, <<"t", ".", "m", "e">>>>}

Leads == {<<>>, <<" ">>}

WsTrails == {<<>>, <<" ">>, <<"FS">>}

QueryTrails == {<<>>, <<"?">>, <<"?", "/", "c", "/">>}

SegSeqs == UNION {[1..k -> SegSet] : k \in 0..MaxSegs}

RawLinks ==
    {lead \o Join(head \o segs, <<"/">>) \o ws \o q :
        lead \in Leads, head \in Heads, segs \in SegSeqs,
        ws \in WsTrails, q \in QueryTrails}

InitParse ==
    /\ pc = "parse"
    /\ arg = None
    /\ link \in RawLinks
    /\ ret = Pass

NextParse == ParseMessageLink

SpecParse == InitParse /\ [][NextParse]_vars


-----------------------------------------------------------------------------
(* Properties of the link builder and parser *)

CMarker == <<"/", "c", "/">>

NotInt(seg) == IntOf(seg).exc # "none"

EndsWithSpace(str) == str # <<>> /\ str[Len(str)] \in StrSpace

\* C1 (as claimed): for every chat id whose decimal form starts with '-100' and
\* every positive message id, parsing the private link built from them returns
\* exactly (chat_id, None, message_id).
C1_PrivateRoundTrip ==
    (pc = "done" /\ arg # None /\ ~Truthy(arg.username)
        /\ StartsWith(Str(arg.chat_id), Minus100) /\ arg.message_id > 0)
    => ret = Return(<<PyInt(arg.chat_id), None, PyInt(arg.message_id)>>)

\* C2 (as claimed): for every non-empty username of letters, digits and
\* underscores and every positive message id, parsing the public link built
\* from them returns exactly (username, None, message_id), whatever chat_id is.
C2_PublicRoundTrip_Original ==
    (pc = "done" /\ arg # None /\ Truthy(arg.username) /\ arg.message_id > 0)
    => ret = Return(<<arg.username, None, PyInt(arg.message_id)>>)

\* C2 (amended): the public round trip holds for every such username other
\* than "c", the path segment that marks a private link.
C2_PublicRoundTrip ==
    (pc = "done" /\ arg # None /\ Truthy(arg.username) /\ arg.message_id > 0
        /\ arg.username.s # <<"c">>)
    => ret = Return(<<arg.username, None, PyInt(arg.message_id)>>)

C2_Witness ==
    /\ pc = "done" /\ arg # None
    /\ arg.username = PyStr(<<"c", "1">>) /\ arg.chat_id = -1005
    /\ arg.message_id = 10
    /\ link = HttpsTMe \o <<"c", "1", "/", "1", "0">>
    /\ ret = Return(<<PyStr(<<"c", "1">>), None, PyInt(10)>>)

\* The segment faults the claim C3 lists, for the form the parser takes.
PrivateFailure(parts) ==
    \/ Len(parts) < 6
    \/ Len(parts) >= 7 /\ (NotInt(Neg(parts, 3)) \/ NotInt(Neg(parts, 2))
                            \/ NotInt(Neg(parts, 1)))
    \/ Len(parts) = 6 /\ (NotInt(Neg(parts, 2)) \/ NotInt(Neg(parts, 1)))

PublicFailure(parts) == Len(parts) < 4 \/ NotInt(Neg(parts, 1))

PublicThreadFailure(parts) == Len(parts) >= 6 /\ NotInt(Neg(parts, 2))

\* C3 (as claimed): the parser never raises, and any parse failure (a
\* non-numeric channel id, thread id or message id segment, or too few
\* segments for the form) yields (None, None, None).
C3_FailureIsEmpty_Original ==
    pc = "done" =>
        /\ ret.kind = "return"
        /\ (HasCMarker(link) /\ PrivateFailure(Parts(link))) => ret.val = NoneTriple
        /\ (~HasCMarker(link) /\ (PublicFailure(Parts(link))
                                   \/ PublicThreadFailure(Parts(link))))
           => ret.val = NoneTriple

\* C3 (amended): the parser never raises; too few segments for the form, a
\* non-numeric message id segment, and in a '/c/' link a non-numeric channel id
\* or thread id segment, yield (None, None, None).  (A non-numeric thread
\* segment of a link without '/c/' is not a failure: see C8.)
C3_FailureIsEmpty ==
    pc = "done" =>
        /\ ret.kind = "return"
        /\ (HasCMarker(link) /\ PrivateFailure(Parts(link))) => ret.val = NoneTriple
        /\ (~HasCMarker(link) /\ PublicFailure(Parts(link))) => ret.val = NoneTriple

C3_Witness ==
    /\ pc = "done"
    /\ HasCMarker(link)
    /\ Len(Parts(link)) >= 7
    /\ ~NotInt(Neg(Parts(link), 3)) /\ NotInt(Neg(Parts(link), 2))
    /\ ~NotInt(Neg(Parts(link), 1))
    /\ ret = Return(NoneTriple)

\* C8: in a link without '/c/' that has at least 6 segments, when the
\* second-from-last segment is not an integer and the last one is, the parser
\* returns (second-from-last segment, None, last segment as an integer).
C8_ThreadFallThrough ==
    (pc = "done" /\ ~HasCMarker(link) /\ Len(Parts(link)) >= 6
        /\ NotInt(Neg(Parts(link), 2)) /\ ~NotInt(Neg(Parts(link), 1)))
    => ret = Return(<<PyStr(Neg(Parts(link), 2)), None,
                      PyInt(IntOf(Neg(Parts(link), 1)).val)>>)

C8_Witness ==
    /\ pc = "done" /\ ~HasCMarker(link) /\ Len(Parts(link)) >= 6
    /\ Neg(Parts(link), 3) = <<"1", "2">>
    /\ Neg(Parts(link), 2) = <<"x">>
    /\ Neg(Parts(link), 1) = <<"1", "2">>
    /\ ret = Return(<<PyStr(<<"x">>), None, PyInt(12)>>)

\* The query strings tried on a parsed link.
QueryStrings == {<<>>, <<"q">>, <<"a", "=", "1", "?", "b">>, CMarker, <<" ">>}

SameWithQueryOrSlash(str, outcome) ==
    /\ \A q \in QueryStrings : parse_message_link(str \o <<"?">> \o q) = outcome
    /\ parse_message_link(str \o <<"/">>) = outcome

\* C9 (as claimed): for every link containing no '?' and every query string
\* q, parsing link + "?" + q and parsing link + "/" both give what parsing
\* link gives.
C9_QueryAndSlash_Original ==
    (pc = "done" /\ ~Contains(link, <<"?">>)) => SameWithQueryOrSlash(link, ret)

\* C9 (amended): the same, for every link containing no '?' that does not end
\* in whitespace.
C9_QueryAndSlash ==
    (pc = "done" /\ ~Contains(link, <<"?">>) /\ ~EndsWithSpace(link))
    => SameWithQueryOrSlash(link, ret)

C9_Witness ==
    /\ pc = "done" /\ ~Contains(link, <<"?">>) /\ ~EndsWithSpace(link)
    /\ ret.val # NoneTriple
    /\ ret.val[2] # None
    /\ SameWithQueryOrSlash(link, ret)

AllOrNothing(r) ==
    /\ (r[1] = None) <=> (r[3] = None)
    /\ r[2] # None => (r[1] # None /\ r[3] # None)

IsPrefixedInt(v) == v.t = "int" /\ StartsWith(Str(v.i), Minus100)

\* C10 (as claimed): the chat reference is null iff the message id is, a thread
\* id comes only with both; when the input contains '/c/' a non-empty result
\* has an integer chat reference whose decimal form starts with '-100', and
\* when the input does not contain '/c/' it has a string chat reference.
C10_AllOrNothing_Original ==
    pc = "done" =>
        /\ ret.kind = "return"
        /\ AllOrNothing(ret.val)
        /\ (Contains(link, CMarker) /\ ret.val # NoneTriple) => IsPrefixedInt(ret.val[1])
        /\ (~Contains(link, CMarker) /\ ret.val # NoneTriple) => ret.val[1].t = "str"

\* C10 (amended): the same, with '/c/' looked for in the link as the parser
\* sees it, after the surrounding whitespace and the query string are removed.
C10_AllOrNothing ==
    pc = "done" =>
        /\ ret.kind = "return"
        /\ AllOrNothing(ret.val)
        /\ (HasCMarker(link) /\ ret.val # NoneTriple) => IsPrefixedInt(ret.val[1])
        /\ (~HasCMarker(link) /\ ret.val # NoneTriple) => ret.val[1].t = "str"

C10_Witness ==
    /\ pc = "done"
    /\ HasCMarker(link)
    /\ ret.val[1] = PyInt(-10012) /\ ret.val[2] = PyInt(12) /\ ret.val[3] = PyInt(12)


-----------------------------------------------------------------------------
(* format_time *)

\* A formatter that appends the seconds only when they are positive.
format_time_NoZeroSeconds(seconds) ==
    IF seconds < 0 THEN <<"0", "s">>
    ELSE LET hours   == seconds \div 3600
             minutes == (seconds % 3600) \div 60
             secs    == seconds % 60
             parts1  == IF hours > 0 THEN <<Str(hours) \o <<"h">>>> ELSE <<>>
             parts2  == IF minutes > 0
                        THEN Append(parts1, Str(minutes) \o <<"m">>) ELSE parts1
             parts3  == IF secs > 0
                        THEN Append(parts2, Str(secs) \o <<"s">>) ELSE parts2
         IN  Join(parts3, <<" ">>)

format_time(seconds) ==
    IF seconds < 0 THEN <<"0", "s">>
    ELSE LET hours   == seconds \div 3600
             minutes == (seconds % 3600) \div 60
             secs    == seconds % 60
             parts1  == IF hours > 0 THEN <<Str(hours) \o <<"h">>>> ELSE <<>>
             parts2  == IF minutes > 0
                        THEN Append(parts1, Str(minutes) \o <<"m">>) ELSE parts1
             parts3  == IF secs > 0 \/ parts2 = <<>>
                        THEN Append(parts2, Str(secs) \o <<"s">>) ELSE parts2
         IN  Join(parts3, <<" ">>)

MaxNegative == 5

MaxSeconds == 7325

InitTime ==
    /\ pc = "call"
    /\ arg \in [seconds : (-MaxNegative)..MaxSeconds]
    /\ link = <<>>
    /\ ret = <<>>

FormatTime ==
    /\ pc = "call"
    /\ ret' = format_time(arg.seconds)
    /\ pc' = "format_time"
    /\ UNCHANGED <<arg, link>>

NextTime == FormatTime

SpecTime == InitTime /\ [][NextTime]_vars

\* The number printed before the unit letter u in the duration text, 0 when
\* no component has that unit.
Printed(text, u) ==
    LET toks == Split(text, " ")
        mine == {k \in 1..Len(toks) : toks[k] # <<>> /\ toks[k][Len(toks[k])] = u}
    IN  IF mine = {} THEN 0
        ELSE LET tok == toks[CHOOSE k \in mine : TRUE]
             IN  IntOf(SubSeq(tok, 1, Len(tok) - 1)).val

\* C4: a negative input gives "0s"; for seconds >= 0 the result is the
\* components "<h>h", "<m>m", "<s>s" in that order joined by single spaces, the
\* hours and minutes components present exactly when non-zero, the seconds
\* component exactly when s > 0 or h = m = 0; so the result is never empty and
\* the printed values add up to the input.
C4_FormatTime ==
    pc = "format_time" =>
        LET seconds == arg.seconds
            h == seconds \div 3600
            m == (seconds % 3600) \div 60
            s == seconds % 60
            hPart == IF h # 0 THEN <<Str(h) \o <<"h">>>> ELSE <<>>
            mPart == IF m # 0 THEN <<Str(m) \o <<"m">>>> ELSE <<>>
            sPart == IF s > 0 \/ (h = 0 /\ m = 0) THEN <<Str(s) \o <<"s">>>> ELSE <<>>
        IN  /\ seconds < 0 => ret = <<"0", "s">>
            /\ seconds >= 0 =>
                /\ ret = Join(hPart \o mPart \o sPart, <<" ">>)
                /\ ret # <<>>
                /\ 3600 * Printed(ret, "h") + 60 * Printed(ret, "m")
                     + Printed(ret, "s") = seconds

C4_Witness ==
    /\ pc = "format_time"
    /\ arg.seconds = 3661
    /\ ret = <<"1", "h", " ", "1", "m", " ", "1", "s">>


-----------------------------------------------------------------------------
(* format_size *)

(***************************************************************************)
(* Byte counts go beyond the integers TLC computes with, so a count is a   *)
(* sequence of base-1024 digits, least significant first, with no leading  *)
(* zero digit (zero is the empty sequence).  The float `size` is a pair    *)
(* [m, e] standing for m / 1024^e: float(bytes_size) rounds the count to   *)
(* the 53 significant bits of a double, and a division of a double by 1024 *)
(* is exact.                                                               *)
(***************************************************************************)

Kilo == 1024

RECURSIVE BigNorm(_)
BigNorm(a) ==
    IF a # <<>> /\ a[Len(a)] = 0 THEN BigNorm(SubSeq(a, 1, Len(a) - 1)) ELSE a

RECURSIVE BigFromNat(_)
BigFromNat(n) ==
    IF n = 0 THEN <<>> ELSE <<n % Kilo>> \o BigFromNat(n \div Kilo)

RECURSIVE BigToNat(_)
BigToNat(a) == IF a = <<>> THEN 0 ELSE Head(a) + Kilo * BigToNat(Tail(a))

\* a * mult, for a small mult
RECURSIVE BigMulAcc(_, _, _)
BigMulAcc(a, mult, carry) ==
    IF a = <<>> THEN BigFromNat(carry)
    ELSE LET t == Head(a) * mult + carry
         IN  <<t % Kilo>> \o BigMulAcc(Tail(a), mult, t \div Kilo)

BigMulSmall(a, mult) == BigNorm(BigMulAcc(a, mult, 0))

\* a + v * 1024^(pos-1), for a digit v
RECURSIVE BigAddAt(_, _, _)
BigAddAt(a, pos, v) ==
    IF v = 0 THEN a
    ELSE IF pos > Len(a) THEN BigAddAt(Append(a, 0), pos, v)
    ELSE LET t == a[pos] + v
         IN  IF t < Kilo THEN [a EXCEPT ![pos] = t]
             ELSE BigAddAt([a EXCEPT ![pos] = t - Kilo], pos + 1, 1)

\* a * 1024^k
RECURSIVE BigShift(_, _)
BigShift(a, k) == IF k = 0 \/ a = <<>> THEN a ELSE <<0>> \o BigShift(a, k - 1)

RECURSIVE BitLen(_)
BitLen(d) == IF d = 0 THEN 0 ELSE 1 + BitLen(d \div 2)

RECURSIVE Pow2(_)
Pow2(r) == IF r = 0 THEN 1 ELSE 2 * Pow2(r - 1)

AllZero(a, upto) == \A k \in 1..upto : a[k] = 0

\* float(n): n itself when it has at most 53 significant bits, else n rounded
\* to 53 significant bits, ties to the even mantissa.
ToDouble(a) ==
    LET n    == BigNorm(a)
        len  == Len(n)
        bits == 10 * (len - 1) + BitLen(n[len])
        drop == bits - 53
    IN  IF len = 0 \/ drop <= 0 THEN n
        ELSE LET q     == drop \div 10
                 unit  == Pow2(drop % 10)
                 keptq == n[q + 1] \div unit
                 lostq == n[q + 1] % unit
                 \* the bits dropped against half a unit of the last place
                 cmp   == IF unit > 1
                          THEN (IF lostq * 2 > unit THEN 1
                                ELSE IF lostq * 2 < unit THEN -1
                                ELSE IF AllZero(n, q) THEN 0 ELSE 1)
                          ELSE (IF n[q] * 2 > Kilo THEN 1
                                ELSE IF n[q] * 2 < Kilo THEN -1
                                ELSE IF AllZero(n, q - 1) THEN 0 ELSE 1)
                 up    == cmp = 1 \/ (cmp = 0 /\ keptq % 2 = 1)
                 kept  == [k \in 1..len |-> IF k <= q THEN 0
                                            ELSE IF k = q + 1 THEN keptq * unit
                                            ELSE n[k]]
             IN  IF up THEN BigAddAt(kept, q + 1, unit) ELSE kept

\* size > 1024
Ge1024_Strict(size) ==
    /\ Len(BigNorm(size.m)) >= size.e + 2
    /\ BigNorm(size.m) # BigShift(<<1>>, size.e + 1)

\* size >= 1024
Ge1024(size) == Len(BigNorm(size.m)) >= size.e + 2

\* size / 1024
Div1024(size) == [m |-> size.m, e |-> size.e + 1]

\* int(size)
IntPart(size) == BigToNat(Drop(size.m, size.e))

\* The digits of size below the point, padded to size.e digits.
FracPart(size) ==
    [k \in 1..size.e |-> IF k <= Len(size.m) THEN size.m[k] ELSE 0]

TwoDigits(c) == <<Digits[(c \div 10) + 1], Digits[(c % 10) + 1]>>

\* f"{size:.2f}": the exact value of the double rounded to hundredths, ties to
\* the even hundredth.
Fmt2f(size) ==
    LET e      == size.e
        prod   == BigMulAcc(FracPart(size), 100, 0) \o [k \in 1..(e + 1) |-> 0]
        hund   == prod[e + 1]
        cmp    == IF e = 0 THEN -1
                  ELSE IF prod[e] * 2 > Kilo THEN 1
                  ELSE IF prod[e] * 2 < Kilo THEN -1
                  ELSE IF AllZero(prod, e - 1) THEN 0 ELSE 1
        up     == cmp = 1 \/ (cmp = 0 /\ hund % 2 = 1)
        hund1  == IF up THEN hund + 1 ELSE hund
        whole  == IntPart(size) + (IF hund1 = 100 THEN 1 ELSE 0)
    IN  Str(whole) \o <<".">> \o TwoDigits(hund1 % 100)

units == <<<<"B">>, <<"K", "B">>, <<"M", "B">>, <<"G", "B">>, <<"T", "B">>>>

\* lines 204-206
RECURSIVE DivideLoop(_, _)
DivideLoop(size, unit_index) ==
    IF Ge1024(size) /\ unit_index < Len(units) - 1
    THEN DivideLoop(Div1024(size), unit_index + 1)
    ELSE [size |-> size, unit_index |-> unit_index]

\* bytes_size is [neg, mag]: a sign and a magnitude.
format_size(bytes_size) ==
    IF bytes_size.neg /\ BigNorm(bytes_size.mag) # <<>> THEN <<"0", " ", "B">>
    ELSE LET end == DivideLoop([m |-> ToDouble(bytes_size.mag), e |-> 0], 0)
         IN  IF end.unit_index = 0
             THEN Str(IntPart(end.size)) \o <<" ">> \o units[end.unit_index + 1]
             ELSE Fmt2f(end.size) \o <<" ">> \o units[end.unit_index + 1]

\* The byte counts tried: every count of at most MaxDigits base-1024 digits
\* taken from DigitSamples, and a few negative ones.
MaxDigits == 6

DigitSamples == {0, 1, 8, 128, 1023}

Counts ==
    {d \in UNION {[1..k -> DigitSamples] : k \in 0..MaxDigits} : BigNorm(d) = d}

InitSize ==
    /\ pc = "call"
    /\ arg \in [neg : {FALSE}, mag : Counts]
               \cup [neg : {TRUE}, mag : {<<>>, <<1>>, <<1023>>, <<0, 1>>}]
    /\ link = <<>>
    /\ ret = <<>>

FormatSize ==
    /\ pc = "call"
    /\ ret' = format_size(arg)
    /\ pc' = "format_size"
    /\ UNCHANGED <<arg, link>>

NextSize == FormatSize

SpecSize == InitSize /\ [][NextSize]_vars


(* Properties of format_size *)

\* a + b
RECURSIVE BigAddAcc(_, _, _)
BigAddAcc(a, b, carry) ==
    IF a = <<>> /\ b = <<>> THEN BigFromNat(carry)
    ELSE LET x == IF a = <<>> THEN 0 ELSE Head(a)
             y == IF b = <<>> THEN 0 ELSE Head(b)
             t == x + y + carry
         IN  <<t % Kilo>> \o BigAddAcc(IF a = <<>> THEN a ELSE Tail(a),
                                       IF b = <<>> THEN b ELSE Tail(b), t \div Kilo)

BigAdd(a, b) == BigNorm(BigAddAcc(a, b, 0))

\* a <= b, for normalized a and b
RECURSIVE BigLeq(_, _)
BigLeq(a, b) ==
    IF Len(a) # Len(b) THEN Len(a) < Len(b)
    ELSE IF a = <<>> THEN TRUE
    ELSE IF a[Len(a)] # b[Len(b)] THEN a[Len(a)] < b[Len(b)]
    ELSE BigLeq(BigNorm(SubSeq(a, 1, Len(a) - 1)), BigNorm(SubSeq(b, 1, Len(b) - 1)))

\* n < 2^53: the counts a double holds exactly.
ExactAsDouble(n) ==
    Len(n) = 0 \/ 10 * (Len(n) - 1) + BitLen(n[Len(n)]) <= 53

AllDigits(str) == str # <<>> /\ \A k \in 1..Len(str) : str[k] \in DigitChars

\* text is "<whole>.<dd>" and that number is count / 1024^k rounded to the
\* nearest hundredth: |100 * count - H * 1024^k| <= 1024^k / 2 for the printed
\* hundredths H.
IsRoundedQuotient(text, count, k) ==
    LET dot == Split(text, ".")
    IN  /\ Len(dot) = 2
        /\ AllDigits(dot[1]) /\ AllDigits(dot[2]) /\ Len(dot[2]) = 2
        /\ LET hundredths == BigAdd(BigMulSmall(BigFromNat(IntOf(dot[1]).val), 100),
                                    BigFromNat(IntOf(dot[2]).val))
               twiceH == BigShift(BigMulSmall(hundredths, 2), k)
               twiceN == BigMulSmall(count, 200)
               one    == BigShift(<<1>>, k)
           IN  /\ BigLeq(twiceN, BigAdd(twiceH, one))
               /\ BigLeq(twiceH, BigAdd(twiceN, one))

\* The unit the claim names for a count n >= 1024: the k-th of KB, MB, GB, TB
\* with k = min(4, the largest k such that 1024^k <= n).
ClaimedUnit(n) == IF Len(n) - 1 < 4 THEN Len(n) - 1 ELSE 4

SizeSmallCases ==
    /\ (arg.neg /\ arg.mag # <<>>) => ret = <<"0", " ", "B">>
    /\ (~arg.neg /\ Len(arg.mag) <= 1)
       => ret = Str(BigToNat(arg.mag)) \o <<" ", "B">>

SizeUnit ==
    (~arg.neg /\ Len(arg.mag) >= 2)
    => LET words == Split(ret, " ")
       IN  /\ Len(words) = 2
           /\ words[2] = units[ClaimedUnit(arg.mag) + 1]
           /\ words[2] \in {<<"K", "B">>, <<"M", "B">>, <<"G", "B">>, <<"T", "B">>}

SizeNumber ==
    IsRoundedQuotient(Split(ret, " ")[1], arg.mag, ClaimedUnit(arg.mag))

-----------------------------------------------------------------------------
(* Properties of parse_command and get_command_args *)

NonSpace(str) == SelectSeq(str, LAMBDA ch : ch \notin StrSpace)

\* The positions of text where a token starts.
TokenStarts(text) ==
    {k \in 1..Len(text) :
        text[k] \notin StrSpace /\ (k = 1 \/ text[k - 1] \in StrSpace)}

\* toks are the whitespace-separated tokens of text.
IsTokenization(text, toks) ==
    /\ \A k \in 1..Len(toks) : toks[k] # <<>> /\ NonSpace(toks[k]) = toks[k]
    /\ Join(toks, <<>>) = NonSpace(text)
    /\ Len(toks) = Cardinality(TokenStarts(text))

\* C6: a text that is empty or does not start with '/' parses to the empty
\* sequence; a text that starts with '/' parses to the non-empty sequence of
\* its whitespace-separated tokens, the first of which starts with '/'; and
\* get_command_args(text) is parse_command(text) without its first token
\* (empty when there are fewer than 2 tokens).
C6_CommandParsing ==
    /\ pc = "parse_command" =>
        /\ (arg.text = <<>> \/ arg.text[1] # "/") => ret = <<>>
        /\ (arg.text # <<>> /\ arg.text[1] = "/") =>
            /\ ret # <<>>
            /\ ret[1][1] = "/"
            /\ IsTokenization(arg.text, ret)
    /\ pc = "get_command_args" =>
        LET parts == parse_command(arg.text)
        IN  /\ Len(parts) < 2 => ret = <<>>
            /\ Len(parts) >= 2 =>
                /\ Len(ret) = Len(parts) - 1
                /\ \A k \in 1..Len(ret) : ret[k] = parts[k + 1]

C6_Witness ==
    /\ pc = "get_command_args"
    /\ arg.text = <<"/", "a", " ", "b", " ">>
    /\ parse_command(arg.text) = <<<<"/", "a">>, <<"b">>>>
    /\ ret = <<<<"b">>>>

-----------------------------------------------------------------------------
(* get_display_name *)

(***************************************************************************)
(* The argument is None or an object.  hasattr() tells an attribute the    *)
(* object does not have from one that holds None, so each attribute is     *)
(* [has, v]: whether the object has it, and its value.                     *)
(***************************************************************************)

Unknown == <<"U", "n", "k", "n", "o", "w", "n">>

Absent == [has |-> FALSE, v |-> None]

Attr(v) == [has |-> TRUE, v |-> v]

\* x or ""
OrEmpty(v) == IF Truthy(v) THEN v.s ELSE <<>>

\* x or "Unknown"
OrUnknown(str) == IF str # <<>> THEN str ELSE Unknown

get_display_name(user) ==
    IF user.is_none THEN Unknown
    ELSE IF user.first_name.has
    THEN LET name0 == OrEmpty(user.first_name.v)
             name  == IF user.last_name.has /\ Truthy(user.last_name.v)
                      THEN name0 \o <<" ">> \o user.last_name.v.s ELSE name0
         IN  OrUnknown(Strip(name))
    ELSE IF user.title.has THEN OrUnknown(OrEmpty(user.title.v))
    ELSE Unknown

FirstNames ==
    {Absent, Attr(None), Attr(PyStr(<<>>)), Attr(PyStr(<<" ">>)),
     Attr(PyStr(<<"A", "l">>)), Attr(PyStr(<<" ", "A", "l">>))}

LastNames ==
    {Absent, Attr(None), Attr(PyStr(<<>>)), Attr(PyStr(<<" ">>)),
     Attr(PyStr(<<"B", "o">>))}

Titles == {Absent, Attr(None), Attr(PyStr(<<>>)), Attr(PyStr(<<"T">>))}

InitName ==
    /\ pc = "call"
    /\ arg \in [is_none : {FALSE}, first_name : FirstNames, last_name : LastNames,
                title : Titles]
               \cup [is_none : {TRUE}, first_name : {Absent}, last_name : {Absent},
                     title : {Absent}]
    /\ link = <<>>
    /\ ret = <<>>

GetDisplayName ==
    /\ pc = "call"
    /\ ret' = get_display_name(arg)
    /\ pc' = "get_display_name"
    /\ UNCHANGED <<arg, link>>

NextName == GetDisplayName

SpecName == InitName /\ [][NextName]_vars

\* An attribute is set when the object has it and it is not None.
IsSet(attr) == attr.has /\ attr.v # None

TextOf(attr) == IF IsSet(attr) THEN attr.v.s ELSE <<>>

\* A chat or channel: a title, and no first or last name set.
ChatLike(user) ==
    ~user.is_none /\ IsSet(user.title)
        /\ ~IsSet(user.first_name) /\ ~IsSet(user.last_name)

\* A user: an object with the first_name field that is not a chat.
UserLike(user) == ~user.is_none /\ user.first_name.has /\ ~ChatLike(user)

\* C7 (as claimed): None gives "Unknown"; a user-like value gives its first and
\* last name joined by one space and trimmed, or "Unknown" when both are blank;
\* a chat-like value (a title and no first or last name set) gives its title,
\* or "Unknown" when the title is empty; the result is never empty.
C7_DisplayName ==
    pc = "get_display_name" =>
        /\ arg.is_none => ret = Unknown
        /\ UserLike(arg) =>
             ret = OrUnknown(Strip(TextOf(arg.first_name) \o <<" ">>
                                     \o TextOf(arg.last_name)))
        /\ ChatLike(arg) => ret = OrUnknown(TextOf(arg.title))
        /\ ret # <<>>

=============================================================================
